---- MODULE Spec2Model ----
(***************************************************************************)
(* Model of claude-sync (src/sync.py): the metadata extractor, the         *)
(* thinking filter of the session copy, and the incremental sync engine    *)
(* (get_synced_sessions, sync_session, sync_all) with its git steps.       *)
(*                                                                         *)
(* Two specifications share the module:                                    *)
(*   Spec    the sync engine as a step machine over the repository tree;   *)
(*   SpecFn  extract_session_metadata and the session copy applied to      *)
(*           every log of at most MaxLen lines over SampleLines.           *)
(***************************************************************************)
EXTENDS Integers, Sequences, FiniteSets, TLC

(***************************************************************************)
(* Bounds                                                                  *)
(***************************************************************************)
MaxLen == 2
MaxRuns == 3
MaxFaults == 1

(***************************************************************************)
(* JSON values of a session log.                                           *)
(* A key that is missing from an object is "<absent>"; JSON null (Python   *)
(* None) is "<null>"; every other string stands for itself.                *)
(* A timestamp is a number whose leading digits (t \div 10) stand for the  *)
(* first 10 characters of the ISO string, the calendar date.               *)
(***************************************************************************)
Absent == "<absent>"
Null == "<null>"

NoTimestamp == [has |-> FALSE, t |-> 0]
Timestamp(t) == [has |-> TRUE, t |-> t]

NoUsage == [has |-> FALSE, input_tokens |-> 0, output_tokens |-> 0,
            cache_read_input_tokens |-> 0, cache_creation_input_tokens |-> 0]
Usage(i, o, r, c) == [has |-> TRUE, input_tokens |-> i, output_tokens |-> o,
                      cache_read_input_tokens |-> r, cache_creation_input_tokens |-> c]

\* One item of a content list: a dict, or a bare string (json = "str").
Item(type, name, file_path) ==
    [json |-> "dict", type |-> type, name |-> name, file_path |-> file_path]
TextItem == Item("text", Absent, Absent)
ThinkingItem == Item("thinking", Absent, Absent)
WriteItem == Item("tool_use", "Write", "/tmp/x.py")
ReadItem == Item("tool_use", "Read", "/tmp/x.py")
StrItem == [json |-> "str", type |-> Absent, name |-> Absent, file_path |-> Absent]

NoContent == [kind |-> Absent, items |-> << >>]
ListContent(items) == [kind |-> "list", items |-> items]
StrContent == [kind |-> "str", items |-> << >>]

\* The value json.loads returns for one line.  json is the JSON type of the
\* value; the other fields are the keys of an object the code looks at.
BaseRec ==
    [json |-> "object", type |-> "user",
     gitBranch |-> Absent, cwd |-> Absent, version |-> Absent,
     timestamp |-> NoTimestamp,
     message |-> Absent, model |-> Absent, usage |-> NoUsage,
     content |-> NoContent]

UserRec(t) == [BaseRec EXCEPT !.timestamp = Timestamp(t), !.message = "dict",
                              !.content = StrContent]
AssistantRec(t, items) ==
    [BaseRec EXCEPT !.type = "assistant", !.timestamp = Timestamp(t),
                    !.message = "dict", !.model = "opus",
                    !.usage = Usage(2, 1, 0, 1),
                    !.content = ListContent(items)]

\* One line of a log file.  parse: "blank" (line.strip() is empty), "bad"
\* (json.loads raises JSONDecodeError) or "ok".  fmt tells whether the text of
\* the line is exactly what json.dumps(rec) produces ("dumps") or another
\* spelling of the same value ("other": different spacing or escapes).
Line(rec, fmt) == [parse |-> "ok", fmt |-> fmt, rec |-> rec, raw |-> ""]
BadLine(raw) == [parse |-> "bad", fmt |-> "other", rec |-> BaseRec, raw |-> raw]
BlankLine == [parse |-> "blank", fmt |-> "other", rec |-> BaseRec, raw |-> ""]

(***************************************************************************)
(* extract_session_metadata (src/sync.py 205-387)                          *)
(***************************************************************************)
\* Python truthiness of a field value: None and "" are falsy.
Truthy(v) == v \notin {Null, ""}

\* The collectors and counters before the first line is read (216-240).
ExtractInit ==
    [raised |-> "none",
     has_first |-> FALSE, first_msg |-> BaseRec, last_msg |-> BaseRec,
     message_count |-> 0, user_message_count |-> 0,
     assistant_message_count |-> 0,
     git_branch |-> Null, cwd |-> Null, claude_version |-> Null,
     model_used |-> Null,
     total_input_tokens |-> 0, total_output_tokens |-> 0,
     total_cache_read_tokens |-> 0, total_cache_creation_tokens |-> 0,
     tool_calls_count |-> 0, tools_used |-> {}, files_modified |-> {}]

\* The "not git_branch" test of lines 255, 257 and 259: a value already held
\* is kept only when it is truthy.
KeepsHeld(held) == Truthy(held)

\* Lines 255-260 for one of gitBranch, cwd, version.
FirstWins(held, carried) ==
    IF carried # Absent /\ ~KeepsHeld(held) THEN carried ELSE held

\* Lines 285-296: the tool_use items of one content list.
ToolItems(items) ==
    {i \in 1..Len(items) : items[i].json = "dict" /\ items[i].type = "tool_use"}
ToolName(item) == IF item.name = Absent THEN "unknown" ELSE item.name
ModifiedFiles(items) ==
    {items[i].file_path : i \in {j \in ToolItems(items) :
        /\ ToolName(items[j]) \in {"Edit", "Write", "NotebookEdit"}
        /\ items[j].file_path \notin {Absent, Null, ""}}}

\* Lines 270-296: an assistant record that has a "message" key.
ExtractMessage(st, msg) ==
    IF msg.message # "dict"
    THEN [st EXCEPT !.raised = "AttributeError"]
    ELSE LET items == IF msg.content.kind = "list" THEN msg.content.items
                      ELSE << >>
         IN [st EXCEPT
              !.model_used = IF msg.model # Absent THEN msg.model ELSE @,
              !.total_input_tokens = @ + msg.usage.input_tokens,
              !.total_output_tokens = @ + msg.usage.output_tokens,
              !.total_cache_read_tokens = @ + msg.usage.cache_read_input_tokens,
              !.total_cache_creation_tokens =
                    @ + msg.usage.cache_creation_input_tokens,
              !.tool_calls_count = @ + Cardinality(ToolItems(items)),
              !.tools_used = @ \cup {ToolName(items[i]) : i \in ToolItems(items)},
              !.files_modified = @ \cup ModifiedFiles(items)]

\* Which exceptions the loop body lets through: it catches
\* json.JSONDecodeError only (line 298), so the TypeError of
\* '"gitBranch" in 42' and the AttributeError of [].get propagate.
RaisedOnValue(msg) ==
    CASE msg.json = "object" -> "none"
      [] msg.json = "number" -> "TypeError"
      [] OTHER -> "AttributeError"

\* Lines 247-296 for a line that json.loads accepted.
ExtractRecord(st, msg) ==
    LET counted == [st EXCEPT !.message_count = @ + 1,
                              !.has_first = TRUE,
                              !.first_msg = IF st.has_first THEN @ ELSE msg,
                              !.last_msg = msg]
    IN IF RaisedOnValue(msg) # "none"
       THEN [counted EXCEPT !.raised = RaisedOnValue(msg)]
       ELSE LET info == [counted EXCEPT
                          !.git_branch = FirstWins(@, msg.gitBranch),
                          !.cwd = FirstWins(@, msg.cwd),
                          !.claude_version = FirstWins(@, msg.version)]
            IN CASE msg.type = "user" ->
                      [info EXCEPT !.user_message_count = @ + 1]
                 [] msg.type = "assistant" ->
                      LET a == [info EXCEPT !.assistant_message_count = @ + 1]
                      IN IF msg.message # Absent THEN ExtractMessage(a, msg)
                         ELSE a
                 [] OTHER -> info

\* Lines 243-299 for one line: blank lines and lines json.loads rejects are
\* skipped.
ExtractLine(st, line) ==
    IF line.parse = "ok" THEN ExtractRecord(st, line.rec) ELSE st

\* The scan of lines 242-299, stopping at the first exception.
RECURSIVE ExtractScan(_, _, _)
ExtractScan(st, log, i) ==
    IF i > Len(log) \/ st.raised # "none" THEN st
    ELSE ExtractScan(ExtractLine(st, log[i]), log, i + 1)

\* Lines 313-326.
StartedAt(st) ==
    IF st.has_first THEN st.first_msg.timestamp ELSE NoTimestamp
EndedAt(st) ==
    IF st.has_first THEN st.last_msg.timestamp ELSE NoTimestamp
Duration(st) ==
    IF StartedAt(st).has /\ EndedAt(st).has
    THEN [has |-> TRUE, seconds |-> EndedAt(st).t - StartedAt(st).t]
    ELSE [has |-> FALSE, seconds |-> 0]

\* The metadata record (334-387); raised # "none" means the call raised and
\* returned nothing.  Host, clock and git lookups of the working directory
\* are left out: they are reads of the environment.
extract_session_metadata(session_path, log) ==
    LET st == ExtractScan(ExtractInit, log, 1)
    IN [raised |-> st.raised,
        session_id |-> session_path[2],
        source_file |-> session_path,
        cwd |-> st.cwd, git_branch |-> st.git_branch,
        claude_version |-> st.claude_version, model |-> st.model_used,
        message_count |-> st.message_count,
        user_message_count |-> st.user_message_count,
        assistant_message_count |-> st.assistant_message_count,
        total_input_tokens |-> st.total_input_tokens,
        total_output_tokens |-> st.total_output_tokens,
        total_cache_read_tokens |-> st.total_cache_read_tokens,
        total_cache_creation_tokens |-> st.total_cache_creation_tokens,
        tool_calls_count |-> st.tool_calls_count,
        tools_used |-> st.tools_used,
        files_modified |-> st.files_modified,
        started_at |-> StartedAt(st), ended_at |-> EndedAt(st),
        duration_seconds |-> Duration(st)]

(***************************************************************************)
(* The session copy of sync_session (src/sync.py 423-445)                  *)
(***************************************************************************)
\* Line 441 without its test: every item is kept.
KeptItemAll(c) == TRUE

\* Line 441: the test an item of the content list must pass to be kept.
KeptItem(c) == c.type # "thinking"

\* Lines 440-442.
FilterItems(items) == SelectSeq(items, KeptItem)

\* Line 437: the records whose content list is filtered.
IsFiltered(msg) == msg.type = "assistant" /\ msg.message # Absent

\* What lines 435-442 raise for a parsed value: msg.get on a value that is
\* not an object, .get on a message that is not an object, c.get on an item
\* that is not an object.  None of them is a JSONDecodeError.
CopyRaises(msg) ==
    \/ msg.json # "object"
    \/ /\ IsFiltered(msg)
       /\ \/ msg.message # "dict"
          \/ /\ msg.content.kind = "list"
             /\ \E i \in 1..Len(msg.content.items) :
                    msg.content.items[i].json # "dict"

\* Lines 435-443: the line written for a parsed line; json.dumps spells the
\* value its own way whatever the spelling of the source line was.
FilterLine(line) ==
    LET msg == line.rec
        out == IF IsFiltered(msg) /\ msg.content.kind = "list"
               THEN [msg EXCEPT !.content.items = FilterItems(@)]
               ELSE msg
    IN [line EXCEPT !.rec = out, !.fmt = "dumps"]

\* The lines of the destination file after the first n source lines, and
\* whether the copy raised in them (include_thinking false, 430-445).
RECURSIVE FilterCopy(_, _)
FilterCopy(log, n) ==
    IF n = 0 THEN [lines |-> << >>, raised |-> FALSE]
    ELSE LET before == FilterCopy(log, n - 1)
             line == log[n]
         IN IF before.raised THEN before
            ELSE CASE line.parse = "blank" -> before
                   [] line.parse = "bad" ->
                        [before EXCEPT !.lines = Append(@, line)]
                   [] CopyRaises(line.rec) ->
                        [before EXCEPT !.raised = TRUE]
                   [] OTHER ->
                        [before EXCEPT !.lines = Append(@, FilterLine(line))]

\* The copy as a whole: shutil.copy2 when include_thinking is set (424-427),
\* the filtering loop otherwise.
CopySession(log, include_thinking) ==
    IF include_thinking THEN [lines |-> log, raised |-> FALSE]
    ELSE FilterCopy(log, Len(log))

(***************************************************************************)
(* Inputs: the lines the logs are made of                                  *)
(***************************************************************************)
FieldRecs ==
    {[BaseRec EXCEPT !.gitBranch = v] : v \in {Null, "", "main", "dev"}}
    \cup {[BaseRec EXCEPT !.type = "system", !.cwd = v] : v \in {Null, "/w1", "/w2"}}
    \cup {[BaseRec EXCEPT !.type = Absent, !.version = v] : v \in {"", "1.0", "2.0"}}

MessageRecs ==
    {UserRec(11),
     [UserRec(12) EXCEPT !.content = ListContent(<<ThinkingItem, TextItem>>)],
     AssistantRec(13, <<ThinkingItem, WriteItem>>),
     AssistantRec(21, <<TextItem, ReadItem>>),
     AssistantRec(22, <<StrItem>>),
     [AssistantRec(23, << >>) EXCEPT !.content = StrContent],
     [BaseRec EXCEPT !.type = "assistant"],
     [BaseRec EXCEPT !.type = "assistant", !.message = "str"]}

\* Lines that are valid JSON but not an object: 42 and [].
ValueRecs == {[BaseRec EXCEPT !.json = "number"], [BaseRec EXCEPT !.json = "list"]}

SampleLines ==
    {Line(r, "dumps") : r \in FieldRecs \cup MessageRecs \cup ValueRecs}
    \cup {Line(UserRec(11), "other"), BadLine("{oops"), BlankLine}

RECURSIVE SeqsUpTo(_, _)
SeqsUpTo(S, n) ==
    IF n = 0 THEN {<< >>}
    ELSE LET shorter == SeqsUpTo(S, n - 1)
         IN shorter \cup {Append(q, x) : q \in shorter, x \in S}

Logs == SeqsUpTo(SampleLines, MaxLen)

SamplePath == <<"-Users-alice-proj", "abc123">>

NoCopy == [lines |-> << >>, raised |-> FALSE]

(***************************************************************************)
(* The local session files of the sync engine (Spec)                       *)
(***************************************************************************)
\* claude_projects_path/<project>/<stem>.jsonl.  Two projects hold a file of
\* the same base name.
PA1 == <<"-Users-alice-proj", "abc123">>
PB1 == <<"-Users-bob-proj", "abc123">>
PA2 == <<"-Users-alice-proj", "agent-7">>
Paths == {PA1, PB1, PA2}
Stems == {p[2] : p \in Paths}
NoPath == <<"", "">>

\* The logs of the three files.  PA1: a user message and an assistant message
\* with a thinking block and a Write.  PB1: an unparsable line, then an
\* assistant message whose content list holds a bare string.  PA2: one message
\* without a timestamp.
LogOf(p) ==
    CASE p = PA1 -> <<Line(UserRec(11), "other"),
                      Line(AssistantRec(13, <<ThinkingItem, WriteItem>>), "dumps")>>
      [] p = PB1 -> <<BadLine("{oops"),
                      Line(AssistantRec(14, <<TextItem, StrItem>>), "other")>>
      [] OTHER -> <<Line([UserRec(0) EXCEPT !.timestamp = NoTimestamp,
                                            !.cwd = "/w1"], "dumps")>>

\* Line 410: the first 10 characters of started_at.
DateOf(ts) == ts.t \div 10

\* The date datetime.now() of line 412 gives.
Clock == {3}
DateBuckets == {1, 3}

\* Files of the repository's working tree.
NoMetaFile == [st |-> "absent", src |-> NoPath,
               data |-> extract_session_metadata(NoPath, << >>)]
NoSessFile == [st |-> "absent", src |-> NoPath, lines |-> << >>]
EmptyTree ==
    [metadata |-> [s \in Stems |-> NoMetaFile],
     sessions |-> [b \in DateBuckets \X Stems |-> NoSessFile]]

NoResult == [error |-> "none", returned |-> FALSE,
             previously_synced |-> 0, newly_synced |-> 0, total |-> 0]

(***************************************************************************)
(* State                                                                   *)
(***************************************************************************)
VARIABLES
    in_log,        \* SpecFn: the log handed to the two functions
    in_thinking,   \* SpecFn: config["include_thinking"]
    fn_pc,         \* SpecFn: "ready", "extracted", "copied"
    out_meta,      \* SpecFn: what extract_session_metadata returned
    out_copy,      \* SpecFn: the destination file of the copy
    repo_exists,      \* sync_repo_path exists (init_sync_repo has run)
    projects_exists,  \* claude_projects_path exists
    include_thinking, \* config["include_thinking"]
    local,         \* the session files under claude_projects_path
    tree,          \* working tree of the repository: metadata/ and sessions/
    index,         \* git index: what "git add ." staged
    head,          \* git HEAD: what the last commit holds
    commits,       \* number of commits sync_all has created
    pc,            \* position of the running sync_all; "idle" when none runs
    push,          \* argument of the current (or last) sync_all
    synced,        \* line 471
    new_sessions,  \* line 475-481
    idx,           \* position of the loop of line 487 in new_sessions
    synced_count,  \* line 486
    metadata,      \* sync_session: line 406
    date_str,      \* sync_session: lines 409-412
    result,        \* what the last sync_all returned
    runs,          \* number of sync_all invocations so far
    start_tree,    \* history: the working tree when the current run started
    called,        \* history: paths sync_session was called for in this run
    failed,        \* history: paths whose sync_session raised in this run
    done,          \* history: paths whose sync_session returned True in this run
    writes_run,    \* history: files opened for writing in this run
    git_calls,     \* history: the git commands of this run with their exit codes
    commit_tree,   \* history: the tree the commit of this run recorded
    meta_writes,   \* history: per stem, times its metadata file was opened for writing
    prev_clean,    \* history: the last run returned, no session failed, local unchanged since
    after_clean,   \* history: this run started when prev_clean held
    orphans,       \* history: stems written by a run that was interrupted before its
                   \* commit, no commit made since
    adopted,       \* history: the orphans of before the last commit
    faults         \* number of I/O failures and interruptions so far

fn_vars == <<in_log, in_thinking, fn_pc, out_meta, out_copy>>
env_vars == <<repo_exists, projects_exists, include_thinking, local>>
git_vars == <<index, head, commits>>
run_vars == <<pc, push, synced, new_sessions, idx, synced_count, metadata,
              date_str, result, runs>>
hist_vars == <<start_tree, called, failed, done, writes_run, git_calls,
               commit_tree, meta_writes, prev_clean, after_clean, orphans,
               adopted>>
sync_vars == <<env_vars, tree, git_vars, run_vars, hist_vars, faults>>

vars == <<fn_vars, sync_vars>>

(***************************************************************************)
(* The sync engine (src/sync.py 392-517)                                   *)
(***************************************************************************)
\* get_synced_sessions globbing for a suffix no metadata file has.
get_synced_none(t) == {}

\* get_synced_sessions: the stems of the files of metadata/, whatever they
\* hold.
get_synced_sessions(t) == {s \in Stems : t.metadata[s].st # "absent"}

\* Line 480 without its test: every session file is new.
IsNewAlways(stem, synced_set) == TRUE

\* Line 480: the test a session file must pass to be a new session.
IsNew(stem, synced_set) == stem \notin synced_set

\* Lines 476-481: iterdir() and glob() give the projects and their files in an
\* order the platform chooses; the files of one project stay together.
Grouped(q) ==
    \A i, j, k \in 1..Len(q) :
        (i < j /\ j < k /\ q[i][1] = q[k][1]) => q[j][1] = q[i][1]
Orderings(S) ==
    {q \in [1..Cardinality(S) -> S] :
        /\ \A i, j \in 1..Cardinality(S) : i # j => q[i] # q[j]
        /\ Grouped(q)}

\* Line 496 with >= for >.
ShouldCommitAlways(count) == count >= 0

\* Line 496.
ShouldCommit(count) == count > 0

\* Line 497 as "git add -u": only files the index already tracks are staged.
GitAddUpdate(t, ix) ==
    [metadata |-> [s \in Stems |->
                     IF ix.metadata[s].st # "absent" THEN t.metadata[s]
                     ELSE ix.metadata[s]],
     sessions |-> [b \in DateBuckets \X Stems |->
                     IF ix.sessions[b].st # "absent" THEN t.sessions[b]
                     ELSE ix.sessions[b]]]

\* Line 497, "git add .": everything in the working tree is staged.
GitAddAll(t, ix) == t

NoMetadata == extract_session_metadata(NoPath, << >>)

SyncIdle ==
    /\ repo_exists = FALSE
    /\ local = {}
    /\ tree = EmptyTree /\ index = EmptyTree /\ head = EmptyTree
    /\ commits = 0
    /\ pc = "idle" /\ push = FALSE
    /\ synced = {} /\ new_sessions = << >> /\ idx = 1 /\ synced_count = 0
    /\ metadata = NoMetadata /\ date_str = 0
    /\ result = NoResult /\ runs = 0
    /\ start_tree = EmptyTree
    /\ called = {} /\ failed = {} /\ done = {}
    /\ writes_run = 0 /\ git_calls = << >> /\ commit_tree = EmptyTree
    /\ meta_writes = [s \in Stems |-> 0]
    /\ prev_clean = FALSE /\ after_clean = FALSE
    /\ orphans = {} /\ adopted = {}
    /\ faults = 0

FnIdle ==
    /\ in_log = << >>
    /\ in_thinking = FALSE
    /\ fn_pc = "off"
    /\ out_meta = NoMetadata
    /\ out_copy = NoCopy

Init ==
    /\ SyncIdle
    /\ projects_exists \in BOOLEAN
    /\ include_thinking \in BOOLEAN
    /\ FnIdle

\* init_sync_repo: creates the repository and its initial commit; a no-op
\* when the repository is there.
InitSyncRepo ==
    /\ pc = "idle"
    /\ ~repo_exists
    /\ repo_exists' = TRUE
    /\ index' = tree /\ head' = tree
    /\ UNCHANGED <<faults, fn_vars, projects_exists, include_thinking, local, tree,
                   commits, run_vars, hist_vars>>

\* A session file appears under claude_projects_path.
AddLocalSession ==
    /\ pc = "idle"
    /\ projects_exists
    /\ \E p \in Paths \ local : local' = local \cup {p}
    /\ prev_clean' = FALSE
    /\ UNCHANGED <<faults, fn_vars, repo_exists, projects_exists, include_thinking,
                   tree, git_vars, run_vars, start_tree, called, failed, done,
                   writes_run, git_calls, commit_tree, meta_writes,
                   after_clean, orphans, adopted>>

RunHistoryReset ==
    /\ start_tree' = tree
    /\ called' = {} /\ failed' = {} /\ done' = {}
    /\ writes_run' = 0 /\ git_calls' = << >> /\ commit_tree' = EmptyTree
    /\ after_clean' = prev_clean
    /\ prev_clean' = FALSE

\* sync_all, lines 462-468: a missing directory ends the run with an error
\* result.
SyncAllError ==
    /\ pc = "idle" /\ runs < MaxRuns
    /\ ~repo_exists \/ ~projects_exists
    /\ \E psh \in BOOLEAN : push' = psh
    /\ result' = [NoResult EXCEPT
                    !.returned = TRUE,
                    !.error = IF ~repo_exists THEN "Repo not initialized"
                              ELSE "Claude projects not found"]
    /\ runs' = runs + 1
    /\ RunHistoryReset
    /\ UNCHANGED <<faults, fn_vars, env_vars, tree, git_vars, pc, synced, new_sessions,
                   idx, synced_count, metadata, date_str, meta_writes, orphans, adopted>>

\* sync_all, lines 470-486: the synced set and the list of new sessions.
SyncAllStart ==
    /\ pc = "idle" /\ runs < MaxRuns
    /\ repo_exists /\ projects_exists
    /\ \E psh \in BOOLEAN : push' = psh
    /\ synced' = get_synced_sessions(tree)
    /\ \E q \in Orderings({p \in local : IsNew(p[2], get_synced_sessions(tree))}) :
            new_sessions' = q
    /\ idx' = 1 /\ synced_count' = 0
    /\ result' = NoResult
    /\ runs' = runs + 1
    /\ pc' = "loop"
    /\ RunHistoryReset
    /\ UNCHANGED <<faults, fn_vars, env_vars, tree, git_vars, metadata, date_str,
                   meta_writes, orphans, adopted>>

\* Line 487: the next session of the list, or the end of the loop.
LoopNext ==
    /\ pc = "loop"
    /\ IF idx <= Len(new_sessions)
       THEN /\ pc' = "extract"
            /\ called' = called \cup {new_sessions[idx]}
       ELSE /\ pc' = "finalize"
            /\ called' = called
    /\ UNCHANGED <<faults, fn_vars, env_vars, tree, git_vars, push, synced,
                   new_sessions, idx, synced_count, metadata, date_str, result,
                   runs, start_tree, failed, done, writes_run, git_calls,
                   commit_tree, meta_writes, prev_clean, after_clean, orphans, adopted>>

\* Lines 492-493: the exception of sync_session is caught and the loop goes on.
Except ==
    /\ failed' = failed \cup {new_sessions[idx]}
    /\ idx' = idx + 1
    /\ metadata' = NoMetadata /\ date_str' = 0
    /\ pc' = "loop"

\* sync_session, lines 403-412: the metadata and the date folder.  The source
\* file may be unreadable, and the extraction raises on some logs.
Extract ==
    /\ pc = "extract"
    /\ LET p == new_sessions[idx]
           m == extract_session_metadata(p, LogOf(p))
       IN \E readable \in BOOLEAN :
            /\ readable \/ faults < MaxFaults
            /\ faults' = IF readable THEN faults ELSE faults + 1
            /\ IF readable /\ m.raised = "none"
               THEN /\ metadata' = m
                    /\ \E today \in Clock :
                         date_str' = IF m.started_at.has THEN DateOf(m.started_at)
                                     ELSE today
                    /\ pc' = "copy_open"
                    /\ UNCHANGED <<failed, idx>>
               ELSE Except
    /\ UNCHANGED <<fn_vars, env_vars, tree, git_vars, push, synced,
                   new_sessions, synced_count, result, runs, start_tree,
                   called, done, writes_run, git_calls, commit_tree,
                   meta_writes, prev_clean, after_clean, orphans, adopted>>

\* Lines 415-430: the directories are made and the destination file is opened
\* for writing, which empties a file already there.
CopyOpen ==
    /\ pc = "copy_open"
    /\ LET p == new_sessions[idx]
       IN \E ok \in BOOLEAN :
            /\ ok \/ faults < MaxFaults
            /\ faults' = IF ok THEN faults ELSE faults + 1
            /\ IF ok
               THEN /\ tree' = [tree EXCEPT !.sessions[<<date_str, p[2]>>] =
                                   [st |-> "partial", src |-> p, lines |-> << >>]]
                    /\ writes_run' = writes_run + 1
                    /\ pc' = "copy_write"
                    /\ UNCHANGED <<failed, idx, metadata, date_str>>
               ELSE /\ Except
                    /\ UNCHANGED <<tree, writes_run>>
    /\ UNCHANGED <<fn_vars, env_vars, git_vars, push, synced, new_sessions,
                   synced_count, result, runs, start_tree, called, done,
                   git_calls, commit_tree, meta_writes, prev_clean,
                   after_clean, orphans, adopted>>

\* Lines 424-445: the lines are written; a write may fail after any number of
\* lines, and the filter raises on some records.
CopyWrite ==
    /\ pc = "copy_write"
    /\ LET p == new_sessions[idx]
           out == CopySession(LogOf(p), include_thinking)
       IN \E k \in 0..Len(out.lines) :
            /\ k = Len(out.lines) \/ faults < MaxFaults
            /\ faults' = IF k = Len(out.lines) THEN faults ELSE faults + 1
            /\ IF k = Len(out.lines) /\ ~out.raised
               THEN /\ tree' = [tree EXCEPT !.sessions[<<date_str, p[2]>>] =
                                   [st |-> "full", src |-> p, lines |-> out.lines]]
                    /\ pc' = "meta_open"
                    /\ UNCHANGED <<failed, idx, metadata, date_str>>
               ELSE /\ tree' = [tree EXCEPT !.sessions[<<date_str, p[2]>>] =
                                   [st |-> "partial", src |-> p,
                                    lines |-> SubSeq(out.lines, 1, k)]]
                    /\ Except
    /\ UNCHANGED <<fn_vars, env_vars, git_vars, push, synced, new_sessions,
                   synced_count, result, runs, start_tree, called, done,
                   writes_run, git_calls, commit_tree, meta_writes, prev_clean,
                   after_clean, orphans, adopted>>

\* Lines 448-449: the metadata file is opened for writing, which creates it.
MetaOpen ==
    /\ pc = "meta_open"
    /\ LET p == new_sessions[idx]
       IN \E ok \in BOOLEAN :
            /\ ok \/ faults < MaxFaults
            /\ faults' = IF ok THEN faults ELSE faults + 1
            /\ IF ok
               THEN /\ tree' = [tree EXCEPT !.metadata[p[2]] =
                                   [st |-> "partial", src |-> p, data |-> metadata]]
                    /\ meta_writes' = [meta_writes EXCEPT ![p[2]] = @ + 1]
                    /\ writes_run' = writes_run + 1
                    /\ pc' = "meta_write"
                    /\ UNCHANGED <<failed, idx, metadata, date_str>>
               ELSE /\ Except
                    /\ UNCHANGED <<tree, meta_writes, writes_run>>
    /\ UNCHANGED <<fn_vars, env_vars, git_vars, push, synced, new_sessions,
                   synced_count, result, runs, start_tree, called, done,
                   git_calls, commit_tree, prev_clean, after_clean, orphans, adopted>>

\* Lines 450-452 and 489-491: json.dump writes the record and sync_session
\* returns True, or the write fails and leaves the file as far as it got.
MetaWrite ==
    /\ pc = "meta_write"
    /\ LET p == new_sessions[idx]
       IN \E ok \in BOOLEAN :
            /\ ok \/ faults < MaxFaults
            /\ faults' = IF ok THEN faults ELSE faults + 1
            /\ IF ok
               THEN /\ tree' = [tree EXCEPT !.metadata[p[2]].st = "full"]
                    /\ synced_count' = synced_count + 1
                    /\ done' = done \cup {p}
                    /\ idx' = idx + 1
                    /\ metadata' = NoMetadata /\ date_str' = 0
                    /\ pc' = "loop"
                    /\ UNCHANGED failed
               ELSE /\ Except
                    /\ UNCHANGED <<tree, synced_count, done>>
    /\ UNCHANGED <<fn_vars, env_vars, git_vars, push, synced, new_sessions,
                   result, runs, start_tree, called, writes_run, git_calls,
                   commit_tree, meta_writes, prev_clean, after_clean, orphans, adopted>>

\* Line 496.
Finalize ==
    /\ pc = "finalize"
    /\ pc' = IF ShouldCommit(synced_count) THEN "git_add" ELSE "return"
    /\ UNCHANGED <<faults, fn_vars, env_vars, tree, git_vars, push, synced,
                   new_sessions, idx, synced_count, metadata, date_str, result,
                   runs, hist_vars>>

\* Line 497.
GitAdd ==
    /\ pc = "git_add"
    /\ index' = GitAddAll(tree, index)
    /\ git_calls' = Append(git_calls, <<"add", 0>>)
    /\ pc' = "git_commit"
    /\ UNCHANGED <<faults, fn_vars, env_vars, tree, head, commits, push, synced,
                   new_sessions, idx, synced_count, metadata, date_str, result,
                   runs, start_tree, called, failed, done, writes_run,
                   commit_tree, meta_writes, prev_clean, after_clean, orphans, adopted>>

\* Lines 498-502.
GitCommit ==
    /\ pc = "git_commit"
    /\ head' = index
    /\ commits' = commits + 1
    /\ commit_tree' = index
    /\ git_calls' = Append(git_calls, <<"commit", 0>>)
    /\ pc' = IF push THEN "git_pull" ELSE "return"
    /\ adopted' = adopted \cup orphans
    /\ orphans' = {}
    /\ UNCHANGED <<faults, fn_vars, env_vars, tree, index, push, synced, new_sessions,
                   idx, synced_count, metadata, date_str, result, runs,
                   start_tree, called, failed, done, writes_run, meta_writes,
                   prev_clean, after_clean>>

\* Lines 503-505: the pull may fail.  What a pull brings from the remote is
\* the work of other machines and stays outside the model.
GitPull ==
    /\ pc = "git_pull"
    /\ \E rc \in {0, 1} : git_calls' = Append(git_calls, <<"pull", rc>>)
    /\ pc' = "git_push"
    /\ UNCHANGED <<faults, fn_vars, env_vars, tree, git_vars, push, synced, new_sessions, idx,
                   synced_count, metadata, date_str, result, runs, start_tree,
                   called, failed, done, writes_run, commit_tree, meta_writes,
                   prev_clean, after_clean, orphans, adopted>>

\* Lines 506-510.
GitPush ==
    /\ pc = "git_push"
    /\ \E rc \in {0, 1} : git_calls' = Append(git_calls, <<"push", rc>>)
    /\ pc' = "return"
    /\ UNCHANGED <<faults, fn_vars, env_vars, tree, git_vars, push, synced,
                   new_sessions, idx, synced_count, metadata, date_str, result,
                   runs, start_tree, called, failed, done, writes_run,
                   commit_tree, meta_writes, prev_clean, after_clean, orphans, adopted>>

RunLocalsReset ==
    /\ synced' = {} /\ new_sessions' = << >> /\ idx' = 1 /\ synced_count' = 0
    /\ metadata' = NoMetadata /\ date_str' = 0
    /\ pc' = "idle"

\* Lines 512-517.
Return ==
    /\ pc = "return"
    /\ result' = [error |-> "none", returned |-> TRUE,
                  previously_synced |-> Cardinality(synced),
                  newly_synced |-> synced_count,
                  total |-> Cardinality(synced) + synced_count]
    /\ prev_clean' = (failed = {})
    /\ RunLocalsReset
    /\ UNCHANGED <<faults, fn_vars, env_vars, tree, git_vars, push, runs, start_tree,
                   called, failed, done, writes_run, git_calls, commit_tree,
                   meta_writes, after_clean, orphans, adopted>>

\* The process is killed in the middle of a run: the files stay as they are,
\* a file being written holds the lines written so far, nothing is returned.
\* The history of the run ends with it.
Interrupt ==
    /\ pc # "idle"
    /\ faults < MaxFaults
    /\ faults' = faults + 1
    /\ IF pc = "copy_write"
       THEN LET p == new_sessions[idx]
                out == CopySession(LogOf(p), include_thinking)
            IN \E k \in 0..Len(out.lines) :
                 tree' = [tree EXCEPT !.sessions[<<date_str, p[2]>>].lines =
                             SubSeq(out.lines, 1, k)]
       ELSE tree' = tree
    /\ orphans' =
         IF pc \in {"git_pull", "git_push", "return"} THEN orphans
         ELSE orphans \cup {p[2] : p \in done}
    /\ result' = NoResult
    /\ RunLocalsReset
    /\ push' = FALSE
    /\ start_tree' = EmptyTree
    /\ called' = {} /\ failed' = {} /\ done' = {}
    /\ writes_run' = 0 /\ git_calls' = << >> /\ commit_tree' = EmptyTree
    /\ after_clean' = FALSE
    /\ UNCHANGED <<fn_vars, env_vars, git_vars, runs, meta_writes, prev_clean,
                   adopted>>

Next ==
    \/ InitSyncRepo
    \/ AddLocalSession
    \/ SyncAllError
    \/ SyncAllStart
    \/ LoopNext
    \/ Extract
    \/ CopyOpen
    \/ CopyWrite
    \/ MetaOpen
    \/ MetaWrite
    \/ Finalize
    \/ GitAdd
    \/ GitCommit
    \/ GitPull
    \/ GitPush
    \/ Return
    \/ Interrupt

Spec == Init /\ [][Next]_vars

(***************************************************************************)
(* The two functions applied to every log (SpecFn)                         *)
(***************************************************************************)
InitFn ==
    /\ in_log \in Logs
    /\ in_thinking \in BOOLEAN
    /\ fn_pc = "ready"
    /\ out_meta = NoMetadata
    /\ out_copy = NoCopy
    /\ SyncIdle
    /\ projects_exists = FALSE
    /\ include_thinking = FALSE

FnExtract ==
    /\ fn_pc = "ready"
    /\ out_meta' = extract_session_metadata(SamplePath, in_log)
    /\ fn_pc' = "extracted"
    /\ UNCHANGED <<in_log, in_thinking, out_copy, sync_vars>>

FnCopy ==
    /\ fn_pc = "extracted"
    /\ out_copy' = CopySession(in_log, in_thinking)
    /\ fn_pc' = "copied"
    /\ UNCHANGED <<in_log, in_thinking, out_meta, sync_vars>>

NextFn == FnExtract \/ FnCopy

SpecFn == InitFn /\ [][NextFn]_vars

(***************************************************************************)
(* Claims about the two functions (SpecFn)                                 *)
(***************************************************************************)
ParsedIdx(log) == {i \in 1..Len(log) : log[i].parse = "ok"}
IsBad(line) == line.parse = "bad"
Extracted == fn_pc \in {"extracted", "copied"}
Copied == fn_pc = "copied"

HasThinking(rec) ==
    /\ rec.content.kind = "list"
    /\ \E i \in 1..Len(rec.content.items) : rec.content.items[i].type = "thinking"

\* C5 as stated: with include_thinking false no content item of any record of
\* the copied file, whatever the record's type, has type "thinking", and
\* unparsable lines pass through verbatim; with include_thinking true the copy
\* is identical to the source.
C5_AsStated ==
    (Copied /\ ~out_copy.raised) =>
        IF in_thinking THEN out_copy.lines = in_log
        ELSE /\ \A i \in 1..Len(out_copy.lines) :
                    out_copy.lines[i].parse = "ok" =>
                        ~HasThinking(out_copy.lines[i].rec)
             /\ SelectSeq(out_copy.lines, IsBad) = SelectSeq(in_log, IsBad)

\* C5 amended: with include_thinking false no content item of any
\* assistant-type record of the copied file has type "thinking", records of
\* any other type keep their content list as it was, and unparsable lines pass
\* through verbatim; with include_thinking true the copy is identical to the
\* source.
C5_ThinkingFilter ==
    (Copied /\ ~out_copy.raised) =>
        IF in_thinking THEN out_copy.lines = in_log
        ELSE LET src == SelectSeq(in_log, LAMBDA l : l.parse # "blank")
             IN /\ Len(out_copy.lines) = Len(src)
                /\ \A i \in 1..Len(src) :
                     LET o == out_copy.lines[i]
                     IN CASE src[i].parse = "bad" -> o = src[i]
                          [] src[i].rec.type = "assistant" ->
                               /\ o.parse = "ok"
                               /\ ~HasThinking(o.rec)
                          [] OTHER ->
                               /\ o.parse = "ok"
                               /\ o.rec = src[i].rec

C5_Witness ==
    /\ Copied /\ ~out_copy.raised /\ ~in_thinking
    /\ Len(in_log) = MaxLen
    /\ \E i \in 1..Len(in_log) :
          /\ in_log[i].parse = "ok"
          /\ in_log[i].rec.type = "assistant"
          /\ HasThinking(in_log[i].rec)
    /\ \E i \in 1..Len(in_log) : in_log[i].parse = "bad"

\* C7 as stated: extract_session_metadata returns without raising for every
\* log, message_count is the number of lines that parse as JSON, and the user
\* and assistant counts sum to at most message_count.
C7_AsStated ==
    Extracted =>
        /\ out_meta.raised = "none"
        /\ out_meta.message_count = Cardinality(ParsedIdx(in_log))
        /\ out_meta.user_message_count + out_meta.assistant_message_count
              <= out_meta.message_count

\* The first record of the log that carries field f, if any.
Carriers(log, f) == {i \in ParsedIdx(log) : log[i].rec[f] # Absent}
FirstCarried(log, f) ==
    IF Carriers(log, f) = {} THEN Null
    ELSE log[CHOOSE i \in Carriers(log, f) :
                \A j \in Carriers(log, f) : i <= j].rec[f]

\* C9 as stated: git_branch, cwd and version of the metadata are the values of
\* the first record carrying gitBranch, cwd and version, whatever that value
\* is (empty string and null included).
C9_AsStated ==
    (Extracted /\ out_meta.raised = "none") =>
        /\ out_meta.git_branch = FirstCarried(in_log, "gitBranch")
        /\ out_meta.cwd = FirstCarried(in_log, "cwd")
        /\ out_meta.claude_version = FirstCarried(in_log, "version")

(***************************************************************************)
(* Claims about the sync engine (Spec)                                     *)
(***************************************************************************)
\* The stems that had a metadata file when the current run started.
MetaAtStart == {s \in Stems : start_tree.metadata[s].st # "absent"}
StemsOf(ps) == {p[2] : p \in ps}
Cmds(calls) == [i \in 1..Len(calls) |-> calls[i][1]]
Returned == result.returned /\ result.error = "none"

\* C1: a session id that has a metadata record when a sync_all run starts is
\* never handed to sync_session in that run, and its metadata file and its
\* session copies stay exactly as they were.
C1_SyncedNotTouched ==
    \A s \in MetaAtStart :
        /\ s \notin StemsOf(called)
        /\ tree.metadata[s] = start_tree.metadata[s]
        /\ \A d \in DateBuckets :
              tree.sessions[<<d, s>>] = start_tree.sessions[<<d, s>>]

C1_Witness ==
    /\ Returned
    /\ \E p \in local : p[2] \in MetaAtStart
    /\ done # {}

\* C2 as stated: over any sequence of runs the metadata file of a session id
\* is opened for writing at most once, also when two project directories hold
\* a session file of the same base name.
C2_AsStated == \A s \in Stems : meta_writes[s] <= 1

\* C3 as stated: a session whose sync_session raised leaves no metadata record
\* behind, is not counted, and the rest of the batch is still processed.
C3_AsStated ==
    /\ \A p \in failed : tree.metadata[p[2]].st = "absent"
    /\ done \cap failed = {}
    /\ pc = "return" =>
          /\ called = {new_sessions[i] : i \in 1..Len(new_sessions)}
          /\ synced_count = Cardinality(done)

\* C4: a run that starts right after a run in which no session failed, with
\* the local session set unchanged, calls sync_session for nothing, writes no
\* file, runs no git command and returns newly_synced = 0.
C4_SecondRunIdle ==
    after_clean =>
        /\ called = {}
        /\ writes_run = 0
        /\ tree = start_tree
        /\ git_calls = << >>
        /\ synced_count = 0
        /\ result.returned => result.newly_synced = 0

C4_Witness ==
    /\ after_clean
    /\ Returned
    /\ result.previously_synced > 0
    /\ local # {}

\* C6: the git commands of a run are "add", "commit" and, when push is
\* requested, "pull" and "push", in that order, and only when at least one
\* session was synced; a run that synced none runs no git command; whatever
\* pull and push return, the commit stays and the run returns its counts.
C6_CommitThenPush ==
    /\ \E n \in 0..4 : Cmds(git_calls) = SubSeq(<<"add", "commit", "pull", "push">>, 1, n)
    /\ Returned =>
          /\ Cmds(git_calls) =
                IF done = {} THEN << >>
                ELSE IF push THEN <<"add", "commit", "pull", "push">>
                ELSE <<"add", "commit">>
          /\ result.newly_synced = Cardinality(done)
          /\ result.previously_synced = Cardinality(MetaAtStart)
          /\ done # {} => (head = commit_tree /\ commit_tree = tree)

C6_Witness ==
    /\ Returned
    /\ push
    /\ git_calls = <<<<"add", 0>>, <<"commit", 0>>, <<"pull", 1>>, <<"push", 1>>>>

\* C8: the files of a session written by a run that was killed before its
\* commit stay uncommitted until a later run commits; no later run hands the
\* session to sync_session; and the first commit a later run creates holds
\* the files as they are in the working tree.
C8_OrphansCommittedLater ==
    /\ \A s \in orphans :
          /\ tree.metadata[s].st # "absent"
          /\ head.metadata[s] # tree.metadata[s]
          /\ s \notin StemsOf(called)
    /\ \A s \in adopted :
          /\ tree.metadata[s].st # "absent"
          /\ head.metadata[s] = tree.metadata[s]
          /\ \A d \in DateBuckets :
                head.sessions[<<d, s>>] = tree.sessions[<<d, s>>]
          /\ s \notin StemsOf(called)

C8_Witness ==
    /\ adopted # {}
    /\ Returned

\* C10 as stated: whenever a metadata record of a session id exists, a
\* completely written copy of that session exists in the sessions tree.
C10_AsStated ==
    \A s \in Stems :
        tree.metadata[s].st # "absent" =>
            \E d \in DateBuckets : tree.sessions[<<d, s>>].st = "full"

\* C11 as stated: when sync_all returns counts, total is previously_synced +
\* newly_synced and equals the number of metadata records in the metadata
\* directory at the end of the run.
C11_AsStated ==
    Returned =>
        /\ result.total = result.previously_synced + result.newly_synced
        /\ result.total =
              Cardinality({s \in Stems : tree.metadata[s].st # "absent"})

====
